---- MODULE Spec2Model ----
(***************************************************************************)
(* k-nearest-neighbour classifier of KNN/main.cpp: calcDistEuclidean,      *)
(* predictOne (bounded max-heap scan followed by a majority vote) and      *)
(* findKNN (batch loop appending the predicted label to each test point).  *)
(*                                                                         *)
(* Indices i, p and the training index stored in a Neighbor are 0-based as *)
(* in the source; TLA+ sequences are 1-based, so element x of a vector v   *)
(* is v[x + 1].  Feature values are small non-negative integers, which are *)
(* exactly representable doubles; labels are 0 or 1.                       *)
(***************************************************************************)
EXTENDS Integers, Sequences, FiniteSets, Bags, TLC

\* ---- bounds of the explored inputs ----
MaxTrain == 3
MaxBatchTrain == 2
MaxTest == 2
MaxD == 1

VARIABLES train, test_points, k, d, pc, p, i, heap, vote, cls, err,
          selected, test0

vars == <<train, test_points, k, d, pc, p, i, heap, vote, cls, err,
          selected, test0>>

\* ---- datasets ----
Labels == {0, 1}

\* feature values: the two ends of the generator's range [0.0, 1.0)
Coords == {0, 1}

FeatureVectors(dd) == [1..dd -> Coords]

LabeledPoints(dd) == {f \o <<l>> : f \in FeatureVectors(dd), l \in Labels}

SeqsUpTo(S, n) == UNION {[1..m -> S] : m \in 0..n}

\* ---- calcDistEuclidean ----
RECURSIVE SumSq(_, _, _)
SumSq(p1, p2, j) ==
  IF j = 0 THEN 0
  ELSE SumSq(p1, p2, j - 1) + (p1[j] - p2[j]) * (p1[j] - p2[j])

\* std::sqrt, kept to 4 fractional bits (fixed point, value * 16): strictly
\* increasing on the sums that occur here, as the double square root is.
Sqrt(x) == CHOOSE r \in 0..(16 * x) : r * r <= 256 * x /\ (r + 1) * (r + 1) > 256 * x

calcDistEuclidean(p1, p2, dd) == Sqrt(SumSq(p1, p2, dd))

\* ---- std::priority_queue<Neighbor, vector<Neighbor>, cmp> ----
\* A Neighbor is <<distance, index>>.
cmpReversed(a, b) == a[1] > b[1]

cmp(a, b) == a[1] < b[1]

\* std::__push_heap: move the hole up while the parent is smaller than value
RECURSIVE PushHeap(_, _, _, _)
PushHeap(h, holeIndex, topIndex, value) ==
  LET parent == (holeIndex - 1) \div 2 IN
  IF holeIndex > topIndex /\ cmp(h[parent + 1], value)
  THEN PushHeap([h EXCEPT ![holeIndex + 1] = h[parent + 1]], parent, topIndex, value)
  ELSE [h EXCEPT ![holeIndex + 1] = value]

\* first loop of std::__adjust_heap: move the hole down along the larger child
RECURSIVE AdjustDown(_, _, _)
AdjustDown(h, secondChild, len) ==
  IF secondChild < (len - 1) \div 2
  THEN LET right == 2 * (secondChild + 1)
           child == IF cmp(h[right + 1], h[right]) THEN right - 1 ELSE right
       IN AdjustDown([h EXCEPT ![secondChild + 1] = h[child + 1]], child, len)
  ELSE <<h, secondChild>>

\* std::__adjust_heap
AdjustHeap(h, holeIndex, len, value) ==
  LET r == AdjustDown(h, holeIndex, len)
      h1 == r[1]
      sc == r[2]
      r2 == IF len % 2 = 0 /\ sc = (len - 2) \div 2
            THEN <<[h1 EXCEPT ![sc + 1] = h1[2 * (sc + 1)]], 2 * (sc + 1) - 1>>
            ELSE <<h1, sc>>
  IN PushHeap(r2[1], r2[2], holeIndex, value)

\* heap.push(v): c.push_back(v); std::push_heap(c.begin(), c.end(), comp)
HeapPush(h, v) == PushHeap(Append(h, v), Len(h), 0, v)

\* heap.pop(): std::pop_heap(c.begin(), c.end(), comp); c.pop_back()
HeapPop(h) ==
  IF Len(h) > 1
  THEN LET last == Len(h) - 1
           value == h[last + 1]
           h1 == [h EXCEPT ![last + 1] = h[1]]
       IN SubSeq(AdjustHeap(h1, 0, last, value), 1, last)
  ELSE SubSeq(h, 1, Len(h) - 1)

\* heap.top()
HeapTop(h) == h[1]

\* ---- predictOne ----
ArgErrorOffByOne(tr, kk) ==
  IF kk <= 0 THEN "InvalidK"
  ELSE IF Len(tr) <= kk THEN "InsufficientTrainingData"
  ELSE "none"

\* the two argument checks at the head of predictOne
ArgError(tr, kk) ==
  IF kk <= 0 THEN "InvalidK"
  ELSE IF Len(tr) < kk THEN "InsufficientTrainingData"
  ELSE "none"

ScanStepNoEvict(tr, pt, kk, dd, ii, h) ==
  LET dist == calcDistEuclidean(pt, tr[ii + 1], dd) IN
  IF Len(h) < kk THEN HeapPush(h, <<dist, ii>>)
  ELSE h

ScanStepEvictOnTie(tr, pt, kk, dd, ii, h) ==
  LET dist == calcDistEuclidean(pt, tr[ii + 1], dd) IN
  IF Len(h) < kk THEN HeapPush(h, <<dist, ii>>)
  ELSE IF dist <= HeapTop(h)[1] THEN HeapPush(HeapPop(h), <<dist, ii>>)
  ELSE h

\* body of the scan loop for training index ii: the heap afterwards
ScanStep(tr, pt, kk, dd, ii, h) ==
  LET dist == calcDistEuclidean(pt, tr[ii + 1], dd) IN
  IF Len(h) < kk THEN HeapPush(h, <<dist, ii>>)
  ELSE IF dist < HeapTop(h)[1] THEN HeapPush(HeapPop(h), <<dist, ii>>)
  ELSE h

\* body of the vote loop: the contribution of the heap's top entry
VoteOf(tr, h, dd) ==
  LET idx == HeapTop(h)[2]
      label == tr[idx + 1][dd + 1]
  IN IF label = 0 THEN -1 ELSE 1

DecideStrict(v) == IF v > 0 THEN 1 ELSE 0

\* return (vote >= 0) ? 1 : 0
Decide(v) == IF v >= 0 THEN 1 ELSE 0

RECURSIVE ScanAll(_, _, _, _, _, _)
ScanAll(tr, pt, kk, dd, ii, h) ==
  IF ii < Len(tr) THEN ScanAll(tr, pt, kk, dd, ii + 1, ScanStep(tr, pt, kk, dd, ii, h))
  ELSE h

RECURSIVE VoteAll(_, _, _, _)
VoteAll(tr, h, dd, v) ==
  IF h # <<>> THEN VoteAll(tr, HeapPop(h), dd, v + VoteOf(tr, h, dd))
  ELSE v

\* predictOne as a function of its four arguments, for valid k
predictOne(tr, pt, kk, dd) == Decide(VoteAll(tr, ScanAll(tr, pt, kk, dd, 0, <<>>), dd, 0))

\* ---- findKNN ----
PrependLabel(point, c) == <<c>> \o point

\* point.push_back(static_cast<double>(cls))
PushLabel(point, c) == Append(point, c)

\* the locals of findKNN and predictOne before the first call
Start ==
  /\ test0 = test_points
  /\ pc = "loop"
  /\ p = 0
  /\ i = 0
  /\ heap = <<>>
  /\ vote = 0
  /\ cls = 0
  /\ err = "none"
  /\ selected = {}

\* findKNN over a batch of test points
Init ==
  /\ d \in 1..MaxD
  /\ train \in SeqsUpTo(LabeledPoints(d), MaxBatchTrain)
  /\ test_points \in SeqsUpTo(FeatureVectors(d), MaxTest)
  /\ k \in (-1)..(MaxBatchTrain + 1)
  /\ Start

\* findKNN over a single query point, larger training sets
InitQuery ==
  /\ d \in 1..MaxD
  /\ train \in SeqsUpTo(LabeledPoints(d), MaxTrain)
  /\ test_points \in [1..1 -> FeatureVectors(d)]
  /\ k \in (-1)..(MaxTrain + 1)
  /\ Start

CallEarlyAppend ==
  /\ pc = "loop"
  /\ p < Len(test_points)
  /\ pc' = "check"
  /\ test_points' = [test_points EXCEPT ![p + 1] = PushLabel(@, 0)]
  /\ UNCHANGED <<train, k, d, p, i, heap, vote, cls, err, selected, test0>>

\* findKNN: the range-for takes the next point and calls predictOne on it
Call ==
  /\ pc = "loop"
  /\ p < Len(test_points)
  /\ pc' = "check"
  /\ UNCHANGED <<train, test_points, k, d, p, i, heap, vote, cls, err, selected, test0>>

\* findKNN: the range-for is exhausted, findKNN returns normally
Finish ==
  /\ pc = "loop"
  /\ p = Len(test_points)
  /\ pc' = "done"
  /\ UNCHANGED <<train, test_points, k, d, p, i, heap, vote, cls, err, selected, test0>>

\* predictOne: an argument check throws; the exception leaves findKNN too
Throw ==
  /\ pc = "check"
  /\ ArgError(train, k) # "none"
  /\ err' = ArgError(train, k)
  /\ pc' = "error"
  /\ UNCHANGED <<train, test_points, k, d, p, i, heap, vote, cls, selected, test0>>

\* predictOne: both checks pass, the empty heap is built and the scan starts
Enter ==
  /\ pc = "check"
  /\ ArgError(train, k) = "none"
  /\ heap' = <<>>
  /\ i' = 0
  /\ pc' = "scan"
  /\ UNCHANGED <<train, test_points, k, d, p, vote, cls, err, selected, test0>>

\* predictOne: one iteration of the scan loop
Scan ==
  /\ pc = "scan"
  /\ i < Len(train)
  /\ heap' = ScanStep(train, test_points[p + 1], k, d, i, heap)
  /\ i' = i + 1
  /\ UNCHANGED <<train, test_points, k, d, pc, p, vote, cls, err, selected, test0>>

ScanEndKeepVote ==
  /\ pc = "scan"
  /\ i = Len(train)
  /\ selected' = {heap[j][2] : j \in 1..Len(heap)}
  /\ pc' = "vote"
  /\ UNCHANGED <<train, test_points, k, d, p, i, heap, vote, cls, err, test0>>

\* predictOne: the scan loop ends, int vote = 0
ScanEnd ==
  /\ pc = "scan"
  /\ i = Len(train)
  /\ vote' = 0
  /\ selected' = {heap[j][2] : j \in 1..Len(heap)}
  /\ pc' = "vote"
  /\ UNCHANGED <<train, test_points, k, d, p, i, heap, cls, err, test0>>

\* predictOne: one iteration of the vote loop
Vote ==
  /\ pc = "vote"
  /\ heap # <<>>
  /\ vote' = vote + VoteOf(train, heap, d)
  /\ heap' = HeapPop(heap)
  /\ UNCHANGED <<train, test_points, k, d, pc, p, i, cls, err, selected, test0>>

\* predictOne: the heap is empty, return the decision
Return ==
  /\ pc = "vote"
  /\ heap = <<>>
  /\ cls' = Decide(vote)
  /\ pc' = "ret"
  /\ UNCHANGED <<train, test_points, k, d, p, i, heap, vote, err, selected, test0>>

\* findKNN: append the returned class to the current point, go to the next
AppendLabel ==
  /\ pc = "ret"
  /\ test_points' = [test_points EXCEPT ![p + 1] = PushLabel(@, cls)]
  /\ p' = p + 1
  /\ pc' = "loop"
  /\ UNCHANGED <<train, k, d, i, heap, vote, cls, err, selected, test0>>

Next ==
  \/ Call
  \/ Finish
  \/ Throw
  \/ Enter
  \/ Scan
  \/ ScanEnd
  \/ Vote
  \/ Return
  \/ AppendLabel

Spec == Init /\ [][Next]_vars

SpecQuery == InitQuery /\ [][Next]_vars

\* ---- vocabulary of the properties ----
N == Len(train)

ValidK == 1 <= k /\ k <= N

\* the point predictOne is working on (not yet labeled while the call runs)
Query == test_points[p + 1]

Dist(a) == calcDistEuclidean(Query, train[a + 1], d)

LabelOf(a) == train[a + 1][d + 1]

\* a comes before b in the full sort by ascending distance, lowest index first
Before(a, b) == Dist(a) < Dist(b) \/ (Dist(a) = Dist(b) /\ a < b)

Rank(a) == Cardinality({b \in 0..(N - 1) : Before(b, a)})

\* the first k indices of the fully sorted list
FirstK == {a \in 0..(N - 1) : Rank(a) < k}

HeapIdx == {heap[j][2] : j \in 1..Len(heap)}

HeapDistBag ==
  [dv \in {heap[j][1] : j \in 1..Len(heap)} |->
     Cardinality({j \in 1..Len(heap) : heap[j][1] = dv})]

DistBag(S) == [dv \in {Dist(a) : a \in S} |-> Cardinality({a \in S : Dist(a) = dv})]

ScanDone == pc = "scan" /\ i = N

Ones(S) == Cardinality({a \in S : LabelOf(a) = 1})

Zeros(S) == Cardinality({a \in S : LabelOf(a) = 0})

Min(a, b) == IF a < b THEN a ELSE b

\* C1: when the scan loop ends, the indices retained in the heap are the
\* first k indices of all training indices sorted by ascending distance to
\* the query, equal distances ordered by lowest index first.
C1_SelectionIsSortedPrefix == ScanDone => HeapIdx = FirstK

\* C2: when the scan loop ends the heap holds exactly k neighbors with
\* pairwise distinct indices, each with its own distance, and the multiset of
\* their distances is the multiset of the k smallest distances.
C2_KSmallestDistances ==
  ScanDone =>
    /\ Len(heap) = k
    /\ Cardinality(HeapIdx) = k
    /\ HeapIdx \subseteq 0..(N - 1)
    /\ HeapDistBag = DistBag(FirstK)

\* a scan that ended with the k smallest distances but not the sorted prefix
C2_Witness == ScanDone /\ k < N /\ HeapIdx # FirstK

\* C3: k <= 0 ends in InvalidK and k > |train| in InsufficientTrainingData;
\* the error is raised before any training point is scanned, nothing is
\* inserted into the heap and no label is returned.
C3_InvalidKState ==
  /\ ~ValidK => /\ pc \in {"loop", "check", "error"}
                /\ i = 0
                /\ heap = <<>>
                /\ selected = {}
                /\ test_points = test0
  /\ pc = "error" => /\ ~ValidK
                     /\ k <= 0 => err = "InvalidK"
                     /\ k > 0 => err = "InsufficientTrainingData"
  /\ pc # "error" => err = "none"

C3_InvalidKStep ==
  pc = "check" /\ ~ValidK => pc' = "error"

C3_ErrorOnInvalidK == [] C3_InvalidKState /\ [][C3_InvalidKStep]_vars

C3_Witness == pc = "error" /\ N > 0 /\ err = "InsufficientTrainingData"

\* C4: the returned label is 1 exactly when the selected neighbors labeled 1
\* are at least as many as those labeled 0, and 0 otherwise.
C4_MajorityVote ==
  pc = "ret" =>
    /\ cls \in {0, 1}
    /\ Ones(selected) + Zeros(selected) = k
    /\ cls = 1 <=> Ones(selected) >= Zeros(selected)

\* an even k with as many 0s as 1s among the selected neighbors
C4_Witness == pc = "ret" /\ k = 2 /\ Ones(selected) = Zeros(selected) /\ cls = 1

\* C5: with k = 1 the returned label is the label of the closest training
\* point, the lowest index among several at the minimum distance.
C5_NearestNeighbor ==
  pc = "ret" /\ k = 1 =>
    \A a \in 0..(N - 1) : Rank(a) = 0 => cls = LabelOf(a)

\* k = 1 and two training points of different labels tie for the minimum
C5_Witness ==
  /\ pc = "ret"
  /\ k = 1
  /\ \E a, b \in 0..(N - 1) :
       /\ Rank(a) = 0
       /\ a < b
       /\ Dist(b) = Dist(a)
       /\ LabelOf(b) # LabelOf(a)

\* C6: after a successful findKNN the test set has the same number of points
\* in the same order, and each point is its original d features followed by
\* exactly one appended value, the class predictOne returned for it.
C6_Frame ==
  pc = "done" =>
    /\ Len(test_points) = Len(test0)
    /\ \A j \in 1..Len(test0) :
         /\ Len(test_points[j]) = d + 1
         /\ SubSeq(test_points[j], 1, d) = test0[j]
         /\ test_points[j][d + 1] \in Labels

C6_AppendStep ==
  pc = "ret" =>
    /\ Len(test_points') = Len(test_points)
    /\ test_points'[p + 1] = test0[p + 1] \o <<cls>>
    /\ \A j \in 1..Len(test_points) : j # p + 1 => test_points'[j] = test_points[j]

C6_BatchOrderPreservation == [] C6_Frame /\ [][C6_AppendStep]_vars

C6_Witness ==
  /\ pc = "done"
  /\ Len(test_points) = 2
  /\ test0[1] # test0[2]
  /\ test_points[1][d + 1] # test_points[2][d + 1]

\* C7: findKNN called with k <= 0 or k > |train| never returns normally,
\* whatever the test set, the empty one included.
C7_FailFast == ~ValidK => pc # "done"

\* C8: when findKNN ends in the error outcome no test point has had a label
\* appended: the test set is as it was before the call.
C8_NoPartialResult == pc = "error" => test_points = test0 /\ p = 0

C8_Witness == pc = "error" /\ Len(test_points) = 2

\* C9: the label appended to each test point is what predictOne returns for
\* that point alone against the same training set, k and d; the points not
\* yet reached are untouched and the training set never changes.
\* (test_points changes only in the step that returns to the loop head, so
\* the labels are compared there and when findKNN has returned)
C9_Labels ==
  pc \in {"loop", "done"} =>
    \A j \in 1..Len(test_points) :
      IF j <= p
      THEN test_points[j] = test0[j] \o <<predictOne(train, test0[j], k, d)>>
      ELSE test_points[j] = test0[j]

C9_Untouched ==
  pc \notin {"ret"} => test_points' = test_points

C9_TrainFixed == train' = train /\ k' = k /\ d' = d /\ C9_Untouched

C9_Independence == [] C9_Labels /\ [][C9_TrainFixed]_vars

\* two test points that get different labels, the second after the first
C9_Witness ==
  /\ pc = "done"
  /\ p = 2
  /\ test_points[1][d + 1] = 1
  /\ test_points[2][d + 1] = 0

\* C10: during the scan, after i points the heap holds min(i, k) entries, its
\* root has the largest retained distance, and a point at least as far as
\* the root of a full heap leaves the heap unchanged.
C10_HeapShape ==
  pc = "scan" =>
    /\ Len(heap) = Min(i, k)
    /\ \A j \in 1..Len(heap) : heap[j][1] <= HeapTop(heap)[1]

C10_DiscardStep ==
  pc = "scan" /\ i < N /\ Len(heap) = k /\ Dist(i) >= HeapTop(heap)[1]
    => heap' = heap

C10_BoundedMaxHeap == [] C10_HeapShape /\ [][C10_DiscardStep]_vars

\* a full heap, the point just scanned tied with the root and was discarded
C10_Witness ==
  /\ pc = "scan"
  /\ i > k
  /\ Len(heap) = k
  /\ Dist(i - 1) = HeapTop(heap)[1]
  /\ (i - 1) \notin HeapIdx
====
